---- MODULE Spec2Model ----
(***************************************************************************)
(* A model of src/search.py: the Streamlit script that searches the        *)
(* OpenAerialMap metadata catalog.  One run of the script is a chain of    *)
(* steps (area selection, the "Fetch Data" button, the page requests of    *)
(* fetch_openaerialmap_data, the processing of the fetched data); the      *)
(* remote catalog and the user are the environment.  The pure functions    *)
(* calculate_bbox, create_geodataframe and create_chart are operators;     *)
(* SpecBbox, SpecGdf and SpecChart apply them to bounded inputs.           *)
(*                                                                         *)
(* Python values: None, the empty list and the empty dict are all the      *)
(* empty function <<>> (all three are falsy); a dict is a function on      *)
(* strings; a list is a sequence; an uncaught exception ends the script    *)
(* run and is recorded, by name, in the variable exception.                *)
(***************************************************************************)
EXTENDS Integers, Sequences, FiniteSets, TLC

VARIABLES
    pc,                     \* position of the script run
    area_selection_method,  \* the st.radio of line 165
    uploaded_file,          \* line 184
    geojson_text,           \* line 191
    geojson,                \* line 172
    bbox,                   \* line 171
    from_date,              \* line 201
    to_date,                \* line 202
    x_col,                  \* line 204
    y_col,                  \* line 205
    chart_type,             \* line 206
    time_interval,          \* line 209
    shown,                  \* the elements this script run has rendered
    exception,              \* the uncaught exception that ended the run, or ""
    catalog,                \* the remote catalog's answer to the current query
    page,                   \* line 59
    all_results,            \* line 58
    requests,               \* the page numbers requested, in order (line 62)
    statuses,               \* the HTTP status of each response received
    data,                   \* line 225
    gdf,                    \* line 227
    session_state,          \* st.session_state
    df,                     \* line 232
    fig                     \* line 237

vars == <<pc, area_selection_method, uploaded_file, geojson_text, geojson, bbox, from_date, to_date, x_col,
          y_col, chart_type, time_interval, shown, exception, catalog, page,
          all_results, requests, statuses, data, gdf, session_state, df, fig>>

None == <<>>

(***************************************************************************)
(* Bounds of the model.                                                    *)
(***************************************************************************)
MaxCoord == 2       \* coordinates are 0..MaxCoord, in steps of 20 degrees
MaxFound == 3       \* the session's catalogs hold 0..MaxFound records
ServerLimit == 2    \* page size a capping server reports in the session
MaxFullPages == 2   \* SpecFetch: catalogs of up to MaxFullPages full pages and a rest
MaxData == 2        \* SpecGdf: records per call of create_geodataframe
MaxRows == 3        \* SpecChart: rows per call of create_chart

RequestedLimit == 100

(***************************************************************************)
(* Small helpers on sequences.                                             *)
(***************************************************************************)
RECURSIVE Concat(_)
Concat(ss) == IF ss = <<>> THEN <<>> ELSE Head(ss) \o Concat(Tail(ss))

\* The list and the dict that are the function f on 1..n and on keys, built
\* element by element.
RECURSIVE ListOf(_, _)
ListOf(f, n) == IF n = 0 THEN <<>> ELSE Append(ListOf(f, n - 1), f[n])
List(f) == ListOf(f, Cardinality(DOMAIN f))

RECURSIVE DictOf(_, _)
DictOf(f, keys) ==
    IF keys = {} THEN <<>>
    ELSE LET k == CHOOSE key \in keys : TRUE
         IN (k :> f[k]) @@ DictOf(f, keys \ {k})
Dict(f) == DictOf(f, DOMAIN f)

Range(s) == {s[i] : i \in 1..Len(s)}

Min(S) == CHOOSE v \in S : \A w \in S : v <= w
Max(S) == CHOOSE v \in S : \A w \in S : v >= w

(***************************************************************************)
(* calculate_bbox (lines 26-42).  The result is [exc, value]: exc names    *)
(* the exception the call raises, or is "" and value is the list returned. *)
(***************************************************************************)
Raise(e) == [exc |-> e, value |-> None]
Return(v) == [exc |-> "", value |-> v]

\* lines 31-35: what one geometry adds to bounds; "IndexError" when
\* coordinates[0] (or polygon[0]) does not exist.
GeometryBoundsAllRings(geometry) ==
    IF geometry.type = "Polygon"
    THEN Return(Concat(geometry.coordinates))
    ELSE IF geometry.type = "MultiPolygon"
    THEN Return(Concat(List([i \in 1..Len(geometry.coordinates) |->
                                 Concat(geometry.coordinates[i])])))
    ELSE Return(<<>>)

GeometryBounds(geometry) ==
    IF geometry.type = "Polygon"
    THEN IF Len(geometry.coordinates) = 0 THEN Raise("IndexError")
         ELSE Return(geometry.coordinates[1])
    ELSE IF geometry.type = "MultiPolygon"
    THEN IF \E i \in 1..Len(geometry.coordinates) : Len(geometry.coordinates[i]) = 0
         THEN Raise("IndexError")
         ELSE Return(Concat(List([i \in 1..Len(geometry.coordinates) |->
                                      geometry.coordinates[i][1]])))
    ELSE Return(<<>>)

\* lines 28-35: the loop over the features, stopping at the first exception.
RECURSIVE CollectBounds(_, _)
CollectBounds(features, bounds) ==
    IF features = <<>> THEN Return(bounds)
    ELSE LET feature == Head(features) IN
         IF "geometry" \notin DOMAIN feature THEN Raise("KeyError")
         ELSE LET g == GeometryBounds(feature.geometry) IN
              IF g.exc # "" THEN g
              ELSE CollectBounds(Tail(features), bounds \o g.value)

calculate_bbox(doc) ==
    IF "features" \notin DOMAIN doc THEN Raise("KeyError")
    ELSE LET c == CollectBounds(doc.features, <<>>) IN
         IF c.exc # "" THEN c
         ELSE IF c.value = <<>> THEN Raise("ValueError")   \* min() of an empty sequence
         ELSE LET bounds == c.value
                  min_x == Min({bounds[i][1] : i \in 1..Len(bounds)})
                  min_y == Min({bounds[i][2] : i \in 1..Len(bounds)})
                  max_x == Max({bounds[i][1] : i \in 1..Len(bounds)})
                  max_y == Max({bounds[i][2] : i \in 1..Len(bounds)})
              IN Return(<<min_x, min_y, max_x, max_y>>)

(***************************************************************************)
(* Geometry documents.  A point is <<x, y>>, a ring a closed sequence of   *)
(* points, a Polygon's coordinates a list of rings (the first is the       *)
(* exterior), a MultiPolygon's a list of such lists.                       *)
(***************************************************************************)
Coords == 0..MaxCoord

Rect(x0, y0, x1, y1) == <<<<x0, y0>>, <<x1, y0>>, <<x1, y1>>, <<x0, y1>>, <<x0, y0>>>>
Tri(x0, y0, x1, y1) == <<<<x0, y0>>, <<x1, y0>>, <<x0, y1>>, <<x0, y0>>>>

Rings ==
    {Rect(x0, y0, x1, y1) : x0 \in Coords, y0 \in Coords, x1 \in Coords, y1 \in Coords}
    \cup {Tri(x0, y0, x1, y1) : x0 \in Coords, y0 \in Coords, x1 \in Coords, y1 \in Coords}

Polygon(rings) == [type |-> "Polygon", coordinates |-> rings]
MultiPolygon(polygons) == [type |-> "MultiPolygon", coordinates |-> polygons]
MultiLineString(lines) == [type |-> "MultiLineString", coordinates |-> lines]
Feature(g) == [type |-> "Feature", geometry |-> g]
FeatureCollection(fs) == [type |-> "FeatureCollection", features |-> fs]

WholeRing == Rect(0, 0, MaxCoord, MaxCoord)
UnitTri == Tri(0, 0, 1, 1)

Geometries ==
    {Polygon(<<r>>) : r \in Rings}
    \cup {Polygon(<<r, WholeRing>>) : r \in Rings}
    \cup {MultiPolygon(<<<<r>>, <<UnitTri, WholeRing>>>>) : r \in Rings}
    \cup {MultiLineString(<<WholeRing>>)}

SecondGeometries ==
    {Polygon(<<UnitTri>>), MultiPolygon(<<<<Rect(1, 1, MaxCoord, MaxCoord)>>>>),
     MultiLineString(<<WholeRing>>)}

\* Documents that are valid JSON and no feature collection of polygons.
MalformedDocs ==
    {[type |-> "FeatureCollection"],                         \* no "features"
     FeatureCollection(<<>>),                                \* no feature
     FeatureCollection(<<[type |-> "Feature"]>>),            \* no "geometry"
     FeatureCollection(<<Feature(Polygon(<<>>))>>),          \* no coordinates
     FeatureCollection(<<Feature(MultiLineString(<<WholeRing>>))>>)}

Docs ==
    {FeatureCollection(<<Feature(g)>>) : g \in Geometries}
    \cup {FeatureCollection(<<Feature(g), Feature(h)>>) :
              g \in Geometries, h \in SecondGeometries}
    \cup MalformedDocs

(***************************************************************************)
(* The text of an upload or of the paste area: empty, the serialisation    *)
(* of a JSON value, or text that is no JSON.  json.load / json.loads       *)
(* (lines 186, 194) return the value or raise JSONDecodeError.             *)
(***************************************************************************)
EmptyText == [empty |-> TRUE, json |-> FALSE, value |-> None]
NotJson == [empty |-> FALSE, json |-> FALSE, value |-> None]
Serialize(v) == [empty |-> FALSE, json |-> TRUE, value |-> v]

json_loads(text) == IF text.json THEN Return(text.value) ELSE Raise("JSONDecodeError")

SessionDocs ==
    {[type |-> "FeatureCollection"],
     FeatureCollection(<<>>),
     FeatureCollection(<<Feature(Polygon(<<>>))>>),
     FeatureCollection(<<Feature(Polygon(<<UnitTri>>))>>)}

Texts == {NotJson} \cup {Serialize(d) : d \in SessionDocs}

\* The mapping fetch_iso3_bboxes returns (lines 13-23); {} when the request failed.
Iso3Data == [NPL |-> <<1, 1, 2, 2>>, USA |-> <<0, 0, 2, 1>>]

Dates == {None, <<2024, 1, 15>>}

(***************************************************************************)
(* Metadata records.  A record is a dict with the reserved keys and its    *)
(* own top-level keys; properties is a dict.  An acquisition or upload     *)
(* time is written <<year, month, day>>, the text "YYYY-MM-DD".            *)
(***************************************************************************)
Reserved ==
    {"properties", "bbox", "footprint", "user", "projection", "meta_uri", "__v", "geojson"}

Footprints == {Polygon(<<Tri(0, 0, 2, 2)>>), Polygon(<<Rect(0, 1, 1, 2)>>),
               Polygon(<<<<<<0, 0>>, <<2, 0>>, <<2, 1>>, <<1, 1>>, <<1, 2>>, <<0, 2>>,
                           <<0, 0>>>>>>)}

PropertyBlocks ==
    {[sensor |-> "rgb"],
     [sensor |-> "rgb", platform |-> "declared"],
     [platform |-> "declared", title |-> "declared title"]}

UploadTimes == {<<2020, 3, 1>>, <<2020, 11, 1>>, <<2021, 1, 1>>, <<2021, 13, 1>>}
Platforms == {"uav", "satellite"}

MetadataRecord(id, when, platform, props, geom) ==
    [_id |-> id, uploaded_at |-> when, platform |-> platform, properties |-> props,
     geojson |-> geom, bbox |-> <<0, 0, MaxCoord, MaxCoord>>, __v |-> 0]

RecordPool ==
    {MetadataRecord(1, w, p, props, g) :
        w \in {<<2020, 3, 1>>, <<2021, 13, 1>>}, p \in Platforms,
        props \in PropertyBlocks, g \in Footprints}

\* The i-th record of the remote catalog.
CatalogRecord(i) ==
    MetadataRecord(i,
        CASE i % 4 = 1 -> <<2020, 3, 1>>
          [] i % 4 = 2 -> <<2020, 11, 1>>
          [] i % 4 = 3 -> <<2021, 1, 1>>
          [] OTHER -> <<2021, 13, 1>>,
        IF i % 3 = 0 THEN "satellite" ELSE "uav",
        IF i % 2 = 0 THEN [sensor |-> "rgb", platform |-> "declared"] ELSE [sensor |-> "rgb"],
        IF i % 2 = 0 THEN Polygon(<<Rect(0, 1, 1, 2)>>) ELSE Polygon(<<Tri(0, 0, 2, 2)>>))

(***************************************************************************)
(* create_geodataframe (lines 76-101).                                     *)
(***************************************************************************)
\* lines 79-91: the properties of a record after the loop over its items.
Flatten(result) ==
    LET top == DOMAIN result \ Reserved
    IN Dict([k \in DOMAIN result.properties \cup top |->
                IF k \in top THEN result[k] ELSE result.properties[k]])

\* lines 77-93
Features(records) ==
    List([i \in 1..Len(records) |->
             [geometry |-> records[i].geojson, properties |-> Flatten(records[i])]])

\* gpd.GeoDataFrame.from_features (line 95): one row per feature, one column
\* per property of any feature and the geometry column; a property a feature
\* lacks is missing (NaN, written None).
from_features(features) ==
    LET columns == UNION {DOMAIN features[i].properties : i \in 1..Len(features)}
    IN List([i \in 1..Len(features) |->
           Dict([c \in columns \cup {"geometry"} |->
               IF c = "geometry" THEN features[i].geometry
               ELSE IF c \in DOMAIN features[i].properties
                    THEN features[i].properties[c] ELSE None])])

\* EPSG:3857 on the grid: one step of 20 degrees of longitude is 350 units,
\* and the latitudes 0, 20, 40, 60, 80 degrees map to the Mercator ordinates.
MercYTable == <<0, 357, 765, 1321, 2443>>
MercX(lon) == 350 * lon
MercY(lat) == MercYTable[lat + 1]
InvMercX(x) == x \div 350
InvMercY(y) == CHOOSE lat \in 0..(Len(MercYTable) - 1) : MercYTable[lat + 1] = y

\* A point of the crs the frame is in, in the crs epsg.
Project(pt, epsg) ==
    IF epsg = 3857 THEN <<MercX(pt[1]), MercY(pt[2])>>
    ELSE <<InvMercX(pt[1]), InvMercY(pt[2])>>

ProjectRing(ring, epsg) == List([i \in 1..Len(ring) |-> Project(ring[i], epsg)])
ProjectGeometry(geometry, epsg) ==
    [geometry EXCEPT !.coordinates =
        List([r \in 1..Len(geometry.coordinates) |->
                 ProjectRing(geometry.coordinates[r], epsg)])]

WithGeometry(row, g) == [row EXCEPT !["geometry"] = g]

\* GeoDataFrame.to_crs (lines 96, 98)
to_crs(frame, epsg) ==
    List([i \in 1..Len(frame) |->
             WithGeometry(frame[i], ProjectGeometry(frame[i].geometry, epsg))])

\* The planar area of a polygon: its exterior ring less its holes.
RECURSIVE Shoelace(_, _)
Shoelace(ring, i) ==
    IF i >= Len(ring) THEN 0
    ELSE ring[i][1] * ring[i + 1][2] - ring[i + 1][1] * ring[i][2] + Shoelace(ring, i + 1)
Abs(n) == IF n < 0 THEN -n ELSE n
RingArea(ring) == Abs(Shoelace(ring, 1)) \div 2
RECURSIVE HolesArea(_, _)
HolesArea(rings, r) ==
    IF r > Len(rings) THEN 0 ELSE RingArea(rings[r]) + HolesArea(rings, r + 1)
Area(geometry) == RingArea(geometry.coordinates[1]) - HolesArea(geometry.coordinates, 2)

\* GeoSeries.envelope: the axis-aligned rectangle around the geometry.
Envelope(geometry) ==
    LET ring == geometry.coordinates[1]
        xs == {ring[i][1] : i \in 1..Len(ring)}
        ys == {ring[i][2] : i \in 1..Len(ring)}
    IN Polygon(<<Rect(Min(xs), Min(ys), Max(xs), Max(ys))>>)

\* line 97
WithArea(frame) ==
    List([i \in 1..Len(frame) |->
        Dict([c \in DOMAIN frame[i] \cup {"area_sqm"} |->
            IF c = "area_sqm" THEN Area(frame[i].geometry) ELSE frame[i][c]])])
\* line 99
WithEnvelope(frame) ==
    List([i \in 1..Len(frame) |-> WithGeometry(frame[i], Envelope(frame[i].geometry))])

create_geodataframe_envelope_first(records) ==
    to_crs(WithArea(to_crs(WithEnvelope(from_features(Features(records))), 3857)), 4326)

create_geodataframe(records) ==
    LET frame == from_features(Features(records))       \* gdf
        gdf_proj == WithArea(to_crs(frame, 3857))
        gdf_proj_back == to_crs(gdf_proj, 4326)
    IN WithEnvelope(gdf_proj_back)

(***************************************************************************)
(* create_chart (lines 104-142).  A number is a one-element sequence, a    *)
(* string the sequence of its character codes, a missing value (NaN, NaT)  *)
(* the empty sequence: the order of time buckets is then the order of      *)
(* sequences of integers, for years and for "YYYY-MM" strings alike.       *)
(***************************************************************************)
NaT == None
NaN == None

DaysIn(y, m) ==
    IF m \in {4, 6, 9, 11} THEN 30
    ELSE IF m = 2 THEN (IF y % 4 = 0 /\ (y % 100 # 0 \/ y % 400 = 0) THEN 29 ELSE 28)
    ELSE 31

\* pd.to_datetime(..., errors="coerce") on one value (line 106)
to_datetime(v) ==
    IF /\ Len(v) = 3
       /\ v[2] \in 1..12
       /\ v[3] \in 1..DaysIn(v[1], v[2])
    THEN v ELSE NaT

Digit(d) == 48 + d
\* .dt.year (line 109)
Year(t) == IF t = NaT THEN NaN ELSE <<t[1]>>
\* .dt.to_period("M").astype(str) (line 111): "YYYY-MM", and "NaT" for NaT
PeriodStr(t) ==
    IF t = NaT THEN <<78, 97, 84>>
    ELSE <<Digit(t[1] \div 1000), Digit((t[1] \div 100) % 10), Digit((t[1] \div 10) % 10),
           Digit(t[1] % 10), 45, Digit(t[2] \div 10), Digit(t[2] % 10)>>

\* The order of two numbers or two strings.
RECURSIVE Less(_, _)
Less(a, b) ==
    IF b = <<>> THEN FALSE
    ELSE IF a = <<>> THEN TRUE
    ELSE IF Head(a) # Head(b) THEN Head(a) < Head(b)
    ELSE Less(Tail(a), Tail(b))

Columns(frame) == DOMAIN frame[1]

\* df[c] = values
WithColumn(frame, c, values) ==
    List([i \in 1..Len(frame) |->
        Dict([k \in DOMAIN frame[i] \cup {c} |-> IF k = c THEN values[i] ELSE frame[i][k]])])

\* groupby([...]).size().reset_index(name="count") (line 115): one row per
\* pair of keys that occurs; a row whose key is missing (NaN) is in no group.
GroupSizes(frame, y) ==
    {[time_group |-> frame[i].time_group, category |-> frame[i][y],
      count |-> Cardinality({j \in 1..Len(frame) :
                    /\ frame[j].time_group = frame[i].time_group
                    /\ frame[j][y] = frame[i][y]})] :
        i \in {j \in 1..Len(frame) : frame[j].time_group # NaN}}

\* sort_values(by="time_group") (line 116)
RECURSIVE SortByTimeGroup(_)
SortByTimeGroup(rows) ==
    IF rows = {} THEN <<>>
    ELSE LET first == CHOOSE r \in rows :
                          \A q \in rows : ~Less(q.time_group, r.time_group)
         IN <<first>> \o SortByTimeGroup(rows \ {first})

\* The time bucket of a row (lines 108-111); defined for "year" and "month".
TimeGroup(t, interval) == IF interval = "year" THEN Year(t) ELSE PeriodStr(t)

ValidIntervalOrDefault(interval) == TRUE
ValidInterval(interval) == interval \in {"year", "month"}

\* The result is [fig, df, error]: the figure or None, the frame as the call
\* leaves it (the function assigns to its columns), and the text st.error
\* shows (line 141) or "".
create_chart(frame, x, y, kind, interval) ==
    IF x \notin Columns(frame)
    THEN [fig |-> None, df |-> frame, error |-> "Error creating chart: KeyError"]
    ELSE LET coerced == WithColumn(frame, x,
                            [i \in 1..Len(frame) |-> to_datetime(frame[i][x])]) IN
    IF ~ValidInterval(interval)
    THEN [fig |-> None, df |-> coerced,
          error |-> "Error creating chart: Unsupported time_interval"]
    ELSE LET grouped == WithColumn(coerced, "time_group",
                            [i \in 1..Len(frame) |-> TimeGroup(coerced[i][x], interval)]) IN
    IF y \notin Columns(grouped)
    THEN [fig |-> None, df |-> grouped, error |-> "Error creating chart: KeyError"]
    ELSE LET grouped_df == SortByTimeGroup(GroupSizes(grouped, y)) IN
    IF kind \notin {"line", "bar"}
    THEN [fig |-> None, df |-> grouped,
          error |-> "Error creating chart: Unsupported chart type"]
    ELSE [fig |-> [kind |-> kind, data |-> grouped_df, x |-> "time_group",
                   y |-> "count", color |-> y, title |-> <<y, interval>>],
          df |-> grouped, error |-> ""]

(***************************************************************************)
(* The script (lines 156-246).  A run starts at "idle" on an interaction   *)
(* of the user and ends there, after the last statement or at an uncaught  *)
(* exception.  The names of a run are fresh; st.session_state is kept.     *)
(***************************************************************************)
\* The values of the chart widgets (lines 204-213): the defaults, another
\* choice of both select boxes, and a typed column the table does not have.
ChartInputs ==
    {[x_col |-> "uploaded_at", y_col |-> "platform", chart_type |-> "line", time_interval |-> "year"],
     [x_col |-> "uploaded_at", y_col |-> "platform", chart_type |-> "bar", time_interval |-> "month"],
     [x_col |-> "acquired", y_col |-> "platform", chart_type |-> "line", time_interval |-> "year"]}

Default == CHOOSE c \in ChartInputs : c.x_col = "uploaded_at" /\ c.chart_type = "line"

\* What the engine of execute_duckdb_query (lines 145-153) does with the
\* query: "" is the empty query text, which the script does not execute.
QueryOutcomes == {"", "rows", "error"}

\* the names the area block and the widgets do not assign
Later == <<catalog, page, all_results, requests, statuses, data, gdf, session_state, df, fig>>

\* lines 201-213, reached when the area block raised nothing
ReadWidgets(fd, td, c) ==
    /\ from_date' = fd
    /\ to_date' = td
    /\ x_col' = c.x_col
    /\ y_col' = c.y_col
    /\ chart_type' = c.chart_type
    /\ time_interval' = c.time_interval
    /\ exception' = ""
    /\ pc' = "button"

\* an exception leaves the script before line 201
Uncaught(e) ==
    /\ from_date' = None
    /\ to_date' = None
    /\ x_col' = Default.x_col
    /\ y_col' = Default.y_col
    /\ chart_type' = Default.chart_type
    /\ time_interval' = Default.time_interval
    /\ exception' = e
    /\ pc' = "done"

\* lines 165-181 and 201-218
SelectCountry ==
    /\ pc = "idle"
    /\ UNCHANGED Later
    /\ area_selection_method' = "Select Country (ISO3)"
    /\ geojson' = None
    /\ UNCHANGED <<uploaded_file, geojson_text>>
    /\ \E iso3_data \in {None, Iso3Data}, fd \in Dates, td \in Dates, c \in ChartInputs :
        /\ IF iso3_data = None
           THEN /\ bbox' = None
                /\ shown' = {"error: Error fetching country data"}
           ELSE \E selected_country \in DOMAIN iso3_data :
                /\ bbox' = iso3_data[selected_country]
                /\ shown' = {"Selected country bbox"}
        /\ ReadWidgets(fd, td, c)

\* lines 165-172, 183-188 and 201-218
UploadGeoJSON ==
    /\ pc = "idle"
    /\ UNCHANGED Later
    /\ area_selection_method' = "Upload GeoJSON"
    /\ UNCHANGED geojson_text
    /\ \E file \in Texts \cup {None}, fd \in Dates, td \in Dates, c \in ChartInputs :
        /\ uploaded_file' = file
        /\ IF file = None
           THEN /\ geojson' = None /\ bbox' = None /\ shown' = {}
                /\ ReadWidgets(fd, td, c)
           ELSE LET loaded == json_loads(file) IN
                IF loaded.exc # ""
                THEN /\ geojson' = None /\ bbox' = None /\ shown' = {}
                     /\ Uncaught(loaded.exc)
                ELSE LET b == calculate_bbox(loaded.value) IN
                     /\ geojson' = loaded.value
                     /\ IF b.exc # ""
                        THEN /\ bbox' = None /\ shown' = {}
                             /\ Uncaught(b.exc)
                        ELSE /\ bbox' = b.value
                             /\ shown' = {"Calculated Bounding Box"}
                             /\ ReadWidgets(fd, td, c)

\* lines 165-172, 190-199 and 201-218
PasteGeoJSON ==
    /\ pc = "idle"
    /\ UNCHANGED Later
    /\ area_selection_method' = "Paste GeoJSON"
    /\ UNCHANGED uploaded_file
    /\ \E text \in Texts \cup {EmptyText}, fd \in Dates, td \in Dates, c \in ChartInputs :
        /\ geojson_text' = text
        /\ IF text.empty
           THEN /\ geojson' = None /\ bbox' = None /\ shown' = {}
                /\ ReadWidgets(fd, td, c)
           ELSE LET loaded == json_loads(text) IN
                IF loaded.exc = "JSONDecodeError"
                THEN /\ geojson' = None /\ bbox' = None
                     /\ shown' = {"error: Invalid GeoJSON"}
                     /\ ReadWidgets(fd, td, c)
                ELSE LET b == calculate_bbox(loaded.value) IN
                     /\ geojson' = loaded.value
                     /\ IF b.exc # ""
                        THEN /\ bbox' = None /\ shown' = {}
                             /\ Uncaught(b.exc)
                        ELSE /\ bbox' = b.value
                             /\ shown' = {"success: GeoJSON successfully parsed",
                                          "Calculated Bounding Box"}
                             /\ ReadWidgets(fd, td, c)

\* line 220, the button not pressed: the run ends
NoClick ==
    /\ pc = "button"
    /\ pc' = "done"
    /\ UNCHANGED <<area_selection_method, uploaded_file, geojson_text, geojson, bbox, from_date, to_date, x_col,
                   y_col, chart_type, time_interval, shown, exception, catalog, page,
                   all_results, requests, statuses, data, gdf, session_state, df, fig>>

(***************************************************************************)
(* The remote catalog.  Its answer to a query is found records, served in  *)
(* pages of limit records; found is reported on every page.                *)
(***************************************************************************)
SessionCatalogs == {[found |-> n, limit |-> ServerLimit] : n \in 0..MaxFound}

PageResults(c, p) ==
    List([i \in 1..(Min({p * c.limit, c.found}) - Min({(p - 1) * c.limit, c.found})) |->
             CatalogRecord((p - 1) * c.limit + i)])

PageBody(c, p) ==
    [results |-> PageResults(c, p), meta |-> [found |-> c.found, limit |-> c.limit]]

\* What requests.get may return for page p: the page; the page under a
\* non-success status; an error document; a body that is no JSON.
Responses(c, p) ==
    {[status_code |-> 200, body |-> Serialize(PageBody(c, p))],
     [status_code |-> 503, body |-> Serialize(PageBody(c, p))],
     [status_code |-> 500, body |-> Serialize([message |-> "Internal Server Error"])],
     [status_code |-> 200, body |-> NotJson]}

\* line 221
NoFiltersAny(b, fd, td) == b = None \/ fd = None \/ td = None
NoFilters(b, fd, td) == b = None /\ fd = None /\ td = None

\* lines 220-225 and 46-59: the button pressed, up to the first request
FetchData ==
    /\ pc = "button"
    /\ shown' = shown \cup
         (IF NoFilters(bbox, from_date, to_date)
          THEN {"warning: No filters selected"} ELSE {})
    /\ \E c \in SessionCatalogs : catalog' = c
    /\ all_results' = <<>>
    /\ page' = 1
    /\ pc' = "fetch"
    /\ UNCHANGED <<area_selection_method, uploaded_file, geojson_text, geojson, bbox, from_date, to_date, x_col,
                   y_col, chart_type, time_interval, exception, requests, statuses,
                   data, gdf, session_state, df, fig>>

\* line 69
EnoughOff(n, total_results) == n > total_results
Enough(n, total_results) == n >= total_results

\* lines 61-73: one request and what the loop does with the response
FetchPage ==
    /\ pc = "fetch"
    /\ requests' = Append(requests, page)
    /\ \E response \in Responses(catalog, page) :
        /\ statuses' = Append(statuses, response.status_code)
        /\ LET parsed == json_loads(response.body) IN
           IF parsed.exc # ""
           THEN /\ exception' = parsed.exc /\ pc' = "done"
                /\ UNCHANGED <<all_results, page, data>>
           ELSE IF "results" \notin DOMAIN parsed.value
           THEN /\ exception' = "KeyError" /\ pc' = "done"
                /\ UNCHANGED <<all_results, page, data>>
           ELSE /\ all_results' = all_results \o parsed.value.results
                /\ UNCHANGED exception
                /\ IF Enough(Len(all_results'), parsed.value.meta.found)
                   THEN /\ data' = all_results' /\ pc' = "fetched"
                        /\ UNCHANGED page
                   ELSE /\ page' = page + 1 /\ pc' = "fetch"
                        /\ UNCHANGED data
    /\ UNCHANGED <<area_selection_method, uploaded_file, geojson_text, geojson, bbox, from_date, to_date, x_col,
                   y_col, chart_type, time_interval, shown, catalog, gdf,
                   session_state, df, fig>>

\* line 233
DropGeometry(frame) ==
    List([i \in 1..Len(frame) |-> Dict([c \in DOMAIN frame[i] \ {"geometry"} |-> frame[i][c]])])

\* lines 236-246: the chart and the query; [fig, df, shown]
ChartAndQuery(frame, x, y, kind, interval, outcome) ==
    LET c == create_chart(frame, x, y, kind, interval)
    IN [fig |-> c.fig, df |-> c.df,
        shown |-> {"Charts", "Custom SQL Query"}
                  \cup (IF c.error # "" THEN {c.error} ELSE {})
                  \cup (IF c.fig # None THEN {"plotly_chart"} ELSE {})
                  \cup (IF outcome = "rows" THEN {"Query returned rows"}
                        ELSE IF outcome = "error" THEN {"error: Error executing query"}
                        ELSE {})]

\* line 228
Store(state, frame) == ("gdf" :> frame) @@ state

\* lines 226-246
ProcessData ==
    /\ pc = "fetched"
    /\ pc' = "done"
    /\ IF data = <<>>
       THEN UNCHANGED <<gdf, session_state, df, fig, shown>>
       ELSE \E outcome \in QueryOutcomes :
            LET frame == create_geodataframe(data)
                cq == ChartAndQuery(DropGeometry(frame), x_col, y_col, chart_type,
                                    time_interval, outcome)
            IN /\ gdf' = frame
               /\ session_state' = Store(session_state, frame)
               /\ df' = cq.df
               /\ fig' = cq.fig
               /\ shown' = shown \cup {"Result", "Total Features", "table"} \cup cq.shown
    /\ UNCHANGED <<area_selection_method, uploaded_file, geojson_text, geojson, bbox, from_date, to_date, x_col,
                   y_col, chart_type, time_interval, exception, catalog, page,
                   all_results, requests, statuses, data>>

\* The run is over: its names are dropped (every run of the script starts
\* from fresh names); st.session_state stays.
EndRun ==
    /\ pc = "done"
    /\ pc' = "idle"
    /\ area_selection_method' = "Select Country (ISO3)"
    /\ uploaded_file' = None
    /\ geojson_text' = EmptyText
    /\ geojson' = None
    /\ bbox' = None
    /\ from_date' = None
    /\ to_date' = None
    /\ x_col' = Default.x_col
    /\ y_col' = Default.y_col
    /\ chart_type' = Default.chart_type
    /\ time_interval' = Default.time_interval
    /\ shown' = {}
    /\ exception' = ""
    /\ catalog' = None
    /\ page' = 0
    /\ all_results' = None
    /\ requests' = <<>>
    /\ statuses' = <<>>
    /\ data' = None
    /\ gdf' = None
    /\ df' = None
    /\ fig' = None
    /\ UNCHANGED session_state

Init ==
    /\ pc = "idle"
    /\ area_selection_method = "Select Country (ISO3)"
    /\ uploaded_file = None
    /\ geojson_text = EmptyText
    /\ geojson = None
    /\ bbox = None
    /\ from_date = None
    /\ to_date = None
    /\ x_col = Default.x_col
    /\ y_col = Default.y_col
    /\ chart_type = Default.chart_type
    /\ time_interval = Default.time_interval
    /\ shown = {}
    /\ exception = ""
    /\ catalog = None
    /\ page = 0
    /\ all_results = None
    /\ requests = <<>>
    /\ statuses = <<>>
    /\ data = None
    /\ gdf = None
    /\ session_state = <<>>
    /\ df = None
    /\ fig = None

Next ==
    \/ SelectCountry
    \/ UploadGeoJSON
    \/ PasteGeoJSON
    \/ NoClick
    \/ FetchData
    \/ FetchPage
    \/ ProcessData
    \/ EndRun

Spec == Init /\ [][Next]_vars

(***************************************************************************)
(* calculate_bbox applied to the geometry documents.                       *)
(***************************************************************************)
InitBbox ==
    /\ pc = "calculate_bbox"
    /\ area_selection_method = "Select Country (ISO3)"
    /\ uploaded_file = None
    /\ geojson_text = EmptyText
    /\ geojson \in Docs
    /\ bbox = None
    /\ from_date = None
    /\ to_date = None
    /\ x_col = Default.x_col
    /\ y_col = Default.y_col
    /\ chart_type = Default.chart_type
    /\ time_interval = Default.time_interval
    /\ shown = {}
    /\ exception = ""
    /\ catalog = None
    /\ page = 0
    /\ all_results = None
    /\ requests = <<>>
    /\ statuses = <<>>
    /\ data = None
    /\ gdf = None
    /\ session_state = <<>>
    /\ df = None
    /\ fig = None

CalculateBbox ==
    /\ pc = "calculate_bbox"
    /\ LET b == calculate_bbox(geojson) IN
       /\ bbox' = b.value
       /\ exception' = b.exc
    /\ pc' = "done"
    /\ UNCHANGED <<area_selection_method, uploaded_file, geojson_text, geojson,
                   from_date, to_date, x_col, y_col, chart_type, time_interval, shown,
                   catalog, page, all_results, requests, statuses, data, gdf,
                   session_state, df, fig>>

NextBbox == CalculateBbox

SpecBbox == InitBbox /\ [][NextBbox]_vars

(***************************************************************************)
(* create_geodataframe applied to lists of records.                        *)
(***************************************************************************)
RECURSIVE ListsUpTo(_, _)
ListsUpTo(S, n) ==
    IF n = 0 THEN {<<>>}
    ELSE LET shorter == ListsUpTo(S, n - 1)
         IN shorter \cup {Append(l, e) : l \in {m \in shorter : Len(m) = n - 1}, e \in S}

DataLists == ListsUpTo(RecordPool, MaxData) \ {<<>>}

InitGdf ==
    /\ pc = "create_geodataframe"
    /\ area_selection_method = "Select Country (ISO3)"
    /\ uploaded_file = None
    /\ geojson_text = EmptyText
    /\ geojson = None
    /\ bbox = None
    /\ from_date = None
    /\ to_date = None
    /\ x_col = Default.x_col
    /\ y_col = Default.y_col
    /\ chart_type = Default.chart_type
    /\ time_interval = Default.time_interval
    /\ shown = {}
    /\ exception = ""
    /\ catalog = None
    /\ page = 0
    /\ all_results = None
    /\ requests = <<>>
    /\ statuses = <<>>
    /\ data \in DataLists
    /\ gdf = None
    /\ session_state = <<>>
    /\ df = None
    /\ fig = None

CreateGeodataframe ==
    /\ pc = "create_geodataframe"
    /\ gdf' = create_geodataframe(data)
    /\ pc' = "done"
    /\ UNCHANGED <<area_selection_method, uploaded_file, geojson_text, geojson, bbox,
                   from_date, to_date, x_col, y_col, chart_type, time_interval, shown,
                   exception, catalog, page, all_results, requests, statuses, data,
                   session_state, df, fig>>

NextGdf == CreateGeodataframe

SpecGdf == InitGdf /\ [][NextGdf]_vars

(***************************************************************************)
(* create_chart, and the rest of the handler after it (lines 236-246),     *)
(* applied to tables; the function takes any string for its parameters.    *)
(***************************************************************************)
ChartRows == {[uploaded_at |-> w, platform |-> p] : w \in UploadTimes, p \in {"A", "B"}}
Tables == ListsUpTo(ChartRows, MaxRows) \ {<<>>}
TimeIntervals == {"year", "month", "week"}

InitChart ==
    /\ pc = "create_chart"
    /\ area_selection_method = "Select Country (ISO3)"
    /\ uploaded_file = None
    /\ geojson_text = EmptyText
    /\ geojson = None
    /\ bbox = None
    /\ from_date = None
    /\ to_date = None
    /\ x_col \in {"uploaded_at", "acquired"}
    /\ y_col = Default.y_col
    /\ chart_type \in {"line", "bar"}
    /\ time_interval \in TimeIntervals
    /\ shown = {}
    /\ exception = ""
    /\ catalog = None
    /\ page = 0
    /\ all_results = None
    /\ requests = <<>>
    /\ statuses = <<>>
    /\ data = None
    /\ gdf = None
    /\ session_state = <<>>
    /\ df \in Tables
    /\ fig = None

CreateChart ==
    /\ pc = "create_chart"
    /\ \E outcome \in QueryOutcomes :
        LET cq == ChartAndQuery(df, x_col, y_col, chart_type, time_interval, outcome)
        IN /\ df' = cq.df
           /\ fig' = cq.fig
           /\ shown' = cq.shown
    /\ pc' = "done"
    /\ UNCHANGED <<area_selection_method, uploaded_file, geojson_text, geojson, bbox,
                   from_date, to_date, x_col, y_col, chart_type, time_interval,
                   exception, catalog, page, all_results, requests, statuses, data, gdf,
                   session_state>>

NextChart == CreateChart

SpecChart == InitChart /\ [][NextChart]_vars

(***************************************************************************)
(* fetch_openaerialmap_data against catalogs served in pages of the        *)
(* requested size: up to MaxFullPages full pages and a last page.          *)
(***************************************************************************)
LastPages == {0, 1, 50}
FetchCatalogs ==
    {[found |-> full * RequestedLimit + last, limit |-> RequestedLimit] :
        full \in 0..MaxFullPages, last \in LastPages}

InitFetch ==
    /\ pc = "fetch"
    /\ area_selection_method = "Select Country (ISO3)"
    /\ uploaded_file = None
    /\ geojson_text = EmptyText
    /\ geojson = None
    /\ bbox = None
    /\ from_date = None
    /\ to_date = None
    /\ x_col = Default.x_col
    /\ y_col = Default.y_col
    /\ chart_type = Default.chart_type
    /\ time_interval = Default.time_interval
    /\ shown = {}
    /\ exception = ""
    /\ catalog \in FetchCatalogs
    /\ page = 1
    /\ all_results = <<>>
    /\ requests = <<>>
    /\ statuses = <<>>
    /\ data = None
    /\ gdf = None
    /\ session_state = <<>>
    /\ df = None
    /\ fig = None

NextFetch == FetchPage

SpecFetch == InitFetch /\ [][NextFetch]_vars

(***************************************************************************)
(* The properties.                                                         *)
(***************************************************************************)
Warning == "warning: No filters selected"
Succeeded(status_code) == status_code \in 200..299

\* C1: against a catalog that reports the same found = N on every page and
\* serves its N records in pages of at most limit, the page requests are 1,
\* 2, 3, ... in order, a request is issued only while fewer than N records
\* are accumulated, and the fetch returns exactly the N records after
\* ceil(N / limit) requests (one request when N = 0).
C1_Pagination ==
    /\ \A i \in 1..Len(requests) : requests[i] = i
    /\ (pc = "fetch" /\ requests # <<>>) => Len(all_results) < catalog.found
    /\ pc = "fetched" =>
        /\ Len(requests) =
             (IF catalog.found = 0 THEN 1
              ELSE (catalog.found + catalog.limit - 1) \div catalog.limit)
        /\ Len(data) = catalog.found
        /\ \A i \in 1..Len(data) : data[i] = CatalogRecord(i)

\* C1: found = 250 and limit = 100 took exactly the requests 1, 2, 3 and
\* returned 250 records.
C1_Witness ==
    /\ pc = "fetched"
    /\ catalog.found = 250
    /\ catalog.limit = 100
    /\ requests = <<1, 2, 3>>
    /\ Len(data) = 250

\* C2: once a page request got a non-success HTTP status, no record of the
\* fetch is returned, stored or displayed.
C2_AbortOnFailure ==
    (\E i \in 1..Len(statuses) : ~Succeeded(statuses[i])) =>
        /\ data = None
        /\ gdf = None
        /\ "Result" \notin shown

\* C3: after create_geodataframe, every top-level key of a record outside
\* the reserved set is an attribute of its row, and every key the record's
\* properties already had keeps the value it had there.
C3_FlattenKeepsProperties ==
    pc = "done" =>
        \A i \in 1..Len(data) :
            /\ \A k \in DOMAIN data[i] \ Reserved :
                /\ k \in DOMAIN gdf[i]
                /\ k \notin DOMAIN data[i].properties => gdf[i][k] = data[i][k]
            /\ \A k \in DOMAIN data[i].properties :
                gdf[i][k] = data[i].properties[k]

\* C4: in the upload and the paste mode, a malformed input (text that is no
\* JSON, or JSON that is no feature collection with polygon coordinates)
\* raises no uncaught exception, shows an error message and leaves bbox
\* unset.
MalformedText(text) ==
    /\ text # None
    /\ ~text.empty
    /\ \/ ~text.json
       \/ text.value \in {[type |-> "FeatureCollection"], FeatureCollection(<<>>),
                          FeatureCollection(<<Feature(Polygon(<<>>))>>)}
C4_MalformedInput ==
    LET text == IF area_selection_method = "Upload GeoJSON"
                THEN uploaded_file ELSE geojson_text
    IN (/\ area_selection_method \in {"Upload GeoJSON", "Paste GeoJSON"}
        /\ pc \in {"button", "done"}
        /\ catalog = None
        /\ MalformedText(text)) =>
            /\ exception = ""
            /\ bbox = None
            /\ "error: Invalid GeoJSON" \in shown

\* C5: the list calculate_bbox returns is the componentwise minimum and
\* maximum over the coordinate pairs of the first ring of every Polygon and
\* of every part of every MultiPolygon, and of no other ring; so
\* min_x <= max_x and min_y <= max_y.  The call raises ValueError exactly
\* when a document of features with geometries has no such pair.
FirstRingPoints(doc) ==
    UNION {LET g == doc.features[f].geometry IN
           IF g.type = "Polygon"
           THEN IF g.coordinates = <<>> THEN {} ELSE Range(g.coordinates[1])
           ELSE IF g.type = "MultiPolygon"
           THEN UNION {IF g.coordinates[part] = <<>> THEN {}
                       ELSE Range(g.coordinates[part][1]) :
                       part \in 1..Len(g.coordinates)}
           ELSE {} : f \in 1..Len(doc.features)}
C5_Bbox ==
    /\ (pc = "done" /\ exception = "") =>
        LET points == FirstRingPoints(geojson) IN
        /\ \E p \in points : p[1] = bbox[1]
        /\ \E p \in points : p[2] = bbox[2]
        /\ \E p \in points : p[1] = bbox[3]
        /\ \E p \in points : p[2] = bbox[4]
        /\ \A p \in points : bbox[1] <= p[1] /\ p[1] <= bbox[3]
        /\ \A p \in points : bbox[2] <= p[2] /\ p[2] <= bbox[4]
        /\ bbox[1] <= bbox[3]
        /\ bbox[2] <= bbox[4]
    /\ (pc = "done" /\ exception = "ValueError") => FirstRingPoints(geojson) = {}

\* C5: a bounding box was returned for a polygon whose second ring reaches
\* beyond it.
C5_Witness ==
    /\ pc = "done"
    /\ exception = ""
    /\ bbox # <<0, 0, MaxCoord, MaxCoord>>
    /\ \E f \in 1..Len(geojson.features) :
        /\ geojson.features[f].geometry.type = "Polygon"
        /\ Len(geojson.features[f].geometry.coordinates) = 2

\* C6: the chart's rows are the reference grouping of the table: one row
\* per pair (time bucket, category) that occurs among the rows, the bucket
\* of a row whose x value did not parse being the null marker, with the
\* number of rows of that pair, in ascending order of time bucket; and an
\* unparsable x value does not abort the call.
ReferenceGroups ==
    {[time_group |-> TimeGroup(df[i][x_col], time_interval),
      category |-> df[i][y_col],
      count |-> Cardinality({j \in 1..Len(df) :
                    /\ TimeGroup(df[j][x_col], time_interval)
                         = TimeGroup(df[i][x_col], time_interval)
                    /\ df[j][y_col] = df[i][y_col]})] : i \in 1..Len(df)}
C6_GroupedCounts ==
    (/\ pc = "done"
     /\ x_col \in Columns(df)
     /\ time_interval \in {"year", "month"}) =>
        /\ fig # None
        /\ Range(fig.data) = ReferenceGroups
        /\ Len(fig.data) = Cardinality(ReferenceGroups)
        /\ \A i \in 1..Len(fig.data) : \A j \in i..Len(fig.data) :
            ~Less(fig.data[j].time_group, fig.data[i].time_group)

\* C7: create_chart called with a granularity other than "year" and "month"
\* returns no chart and does not fall back to a granularity: an error is
\* shown (the unsupported-granularity error whenever the table has the x
\* column), no chart is plotted, and the handler goes on to the query step.
C7_InvalidInterval ==
    (pc = "done" /\ time_interval \notin {"year", "month"}) =>
        /\ fig = None
        /\ "plotly_chart" \notin shown
        /\ \E message \in shown :
            message \in {"Error creating chart: Unsupported time_interval",
                         "Error creating chart: KeyError"}
        /\ x_col \in Columns(df) =>
            "Error creating chart: Unsupported time_interval" \in shown
        /\ "Custom SQL Query" \in shown

\* C7: granularity "week" was refused and the query that follows returned
\* its rows.
C7_Witness ==
    /\ pc = "done"
    /\ time_interval = "week"
    /\ "Error creating chart: Unsupported time_interval" \in shown
    /\ "Query returned rows" \in shown

\* C8: the area_sqm of every row is the planar area of the record's own
\* footprint, its geometry is the footprint's envelope, and for a footprint
\* that is no rectangle area_sqm is less than the envelope's planar area.
C8_AreaBeforeEnvelope ==
    pc = "done" =>
        \A i \in 1..Len(data) :
            /\ gdf[i].area_sqm = Area(ProjectGeometry(data[i].geojson, 3857))
            /\ gdf[i].geometry = Envelope(data[i].geojson)
            /\ data[i].geojson # Envelope(data[i].geojson) =>
                gdf[i].area_sqm < Area(ProjectGeometry(gdf[i].geometry, 3857))

\* C8: a row of a footprint that is no rectangle, its area below that of the
\* envelope it is displayed with.
C8_Witness ==
    /\ pc = "done"
    /\ \E i \in 1..Len(gdf) :
        /\ data[i].geojson # gdf[i].geometry
        /\ gdf[i].area_sqm < Area(ProjectGeometry(gdf[i].geometry, 3857))

\* C9: once the button is pressed the warning is shown if and only if bbox,
\* from_date and to_date are all unset, it is never shown otherwise, and
\* the first page request follows whether it is shown or not.
C9_Warning ==
    /\ catalog = None => Warning \notin shown
    /\ catalog # None =>
        /\ Warning \in shown <=> (bbox = None /\ from_date = None /\ to_date = None)
        /\ IF pc = "fetch" /\ requests = <<>>
           THEN ENABLED FetchPage
           ELSE Len(requests) >= 1

\* C9: the warning was shown and the request was issued.
C9_Witness ==
    /\ Warning \in shown
    /\ bbox = None /\ from_date = None /\ to_date = None
    /\ Len(requests) >= 1

\* C10: when a fetch has completed, st.session_state["gdf"] is the
\* normalized result of that fetch, also when it returned no record.
C10_Replaced ==
    (pc = "done" /\ catalog # None /\ exception = "") =>
        IF data = <<>>
        THEN "gdf" \in DOMAIN session_state => session_state.gdf = <<>>
        ELSE /\ "gdf" \in DOMAIN session_state
             /\ session_state.gdf = create_geodataframe(data)

====
